---- MODULE Spec2Model ----
(***************************************************************************)
(* Model of src/assignment.cpp: the RSI / EMA / MACD / SMA indicator       *)
(* functions and the single-pass position state machine run_strategy.      *)
(*                                                                         *)
(* Prices are integers.  Every double the program computes from them is    *)
(* modelled exactly: small quotients (RSI, SMA, trade returns) as          *)
(* fractions [n, d] of machine integers, and the EMA / MACD values, whose  *)
(* denominators are 13^11 and 27^25, as fractions of multi-digit integers. *)
(* A fraction with d = 0 is a non-finite double: n = 1 is +inf, n = -1 is  *)
(* -inf and n = 0 is NaN, as IEEE-754 division by zero produces them.      *)
(* closes is a TLA+ sequence; At(c, i) is the C++ element c[i] (0-based).  *)
(***************************************************************************)
EXTENDS Integers, Sequences, FiniteSets

(***************************************************************************)
(* Bounds of the model.                                                    *)
(***************************************************************************)
\* longest tail appended after the 27-bar prefix of a generated series
MaxTail == 4
\* longest series and largest period handed to a stand-alone indicator call
MaxLen == 4
MaxPeriod == 3
\* multi-digit integers: NDigits digits in base Base, least significant first
Base == 10000
NDigits == 14

(***************************************************************************)
(* Program constants.                                                      *)
(***************************************************************************)
\* default argument of calculate_rsi
DefaultPeriod == 14
\* the two EMA lengths of calculate_macd
FastLength == 12
SlowLength == 26
\* the SMA period run_strategy uses
SmaPeriod == 20
\* the RSI entry and exit levels of run_strategy
Oversold == 30
ExitLevel == 60
\* first index of the scan loop (variant: the loop starts one bar early)
FirstIndexEarly == 26 - 1
FirstIndex == 26

(***************************************************************************)
(* Integer helpers.                                                        *)
(***************************************************************************)
Abs(x) == IF x < 0 THEN -x ELSE x

Sign(x) == IF x < 0 THEN -1 ELSE IF x = 0 THEN 0 ELSE 1

RECURSIVE Gcd(_, _)
Gcd(a, b) == IF b = 0 THEN a ELSE Gcd(b, a % b)

(***************************************************************************)
(* Doubles as exact fractions of machine integers.                         *)
(***************************************************************************)
\* the fraction n/d in lowest terms with d > 0; d = 0 gives inf / NaN
Rat(n, d) ==
    IF d = 0 THEN [n |-> Sign(n), d |-> 0]
    ELSE LET g == Gcd(Abs(n), Abs(d))
             s == Sign(d)
         IN  [n |-> s * (n \div g), d |-> s * (d \div g)]

RInt(x) == [n |-> x, d |-> 1]

IsFinite(a) == a.d # 0

IsNaN(a) == a.d = 0 /\ a.n = 0

\* a + b
RAdd(a, b) ==
    IF IsFinite(a) /\ IsFinite(b) THEN Rat(a.n * b.d + b.n * a.d, a.d * b.d)
    ELSE IF IsNaN(a) \/ IsNaN(b) THEN [n |-> 0, d |-> 0]
    ELSE IF IsFinite(a) THEN b
    ELSE IF IsFinite(b) THEN a
    ELSE IF a.n = b.n THEN a
    ELSE [n |-> 0, d |-> 0]

\* a - b
RSub(a, b) == RAdd(a, [n |-> -b.n, d |-> b.d])

\* a * b
RMul(a, b) ==
    IF IsFinite(a) /\ IsFinite(b) THEN Rat(a.n * b.n, a.d * b.d)
    ELSE [n |-> Sign(a.n) * Sign(b.n), d |-> 0]

\* a / b; a finite value divided by zero is +inf, -inf or NaN
RDiv(a, b) ==
    IF IsFinite(a) /\ IsFinite(b) THEN Rat(a.n * b.d, a.d * b.n)
    ELSE IF IsFinite(a) THEN (IF IsNaN(b) THEN b ELSE RInt(0))
    ELSE IF IsFinite(b) THEN [n |-> a.n * (IF b.n < 0 THEN -1 ELSE 1), d |-> 0]
    ELSE [n |-> 0, d |-> 0]

\* a < b; every comparison with NaN is false
RLt(a, b) ==
    IF IsNaN(a) \/ IsNaN(b) THEN FALSE
    ELSE IF IsFinite(a) /\ IsFinite(b) THEN a.n * b.d < b.n * a.d
    ELSE IF IsFinite(a) THEN b.n > 0
    ELSE IF IsFinite(b) THEN a.n < 0
    ELSE a.n < b.n

RGt(a, b) == RLt(b, a)

(***************************************************************************)
(* Multi-digit integers: a sequence of NDigits digits, least significant   *)
(* first; all digits but the last lie in 0..Base-1 and the last carries    *)
(* the sign.  They hold the numerators and denominators of the EMA.        *)
(***************************************************************************)
\* carry propagation; st is the loop state: digit position, carry, digits done
RECURSIVE Carry(_, _)
Carry(ds, st) ==
    LET v == ds[st.k] + st.carry
    IN  IF st.k = NDigits THEN Append(st.acc, v)
        ELSE Carry(ds, [k |-> st.k + 1, carry |-> v \div Base,
                        acc |-> Append(st.acc, v % Base)])

Normalize(ds) == Carry(ds, [k |-> 1, carry |-> 0, acc |-> <<>>])

BigFromInt(x) == Normalize([k \in 1..NDigits |-> IF k = 1 THEN x ELSE 0])

BigSign(a) ==
    IF a[NDigits] < 0 THEN -1
    ELSE IF \A k \in 1..NDigits : a[k] = 0 THEN 0 ELSE 1

BigNeg(a) == Normalize([k \in 1..NDigits |-> -a[k]])

BigAdd(a, b) == Normalize([k \in 1..NDigits |-> a[k] + b[k]])

BigSub(a, b) == Normalize([k \in 1..NDigits |-> a[k] - b[k]])

\* a times the machine integer x
BigScale(a, x) == Normalize([k \in 1..NDigits |-> a[k] * x])

RECURSIVE ConvSum(_, _, _, _)
ConvSum(a, b, k, j) ==
    IF j > k THEN 0 ELSE a[j] * b[k + 1 - j] + ConvSum(a, b, k, j + 1)

RECURSIVE MulCarry(_, _, _)
MulCarry(a, b, st) ==
    LET v == ConvSum(a, b, st.k, 1) + st.carry
    IN  IF st.k = NDigits THEN Append(st.acc, v)
        ELSE MulCarry(a, b, [k |-> st.k + 1, carry |-> v \div Base,
                             acc |-> Append(st.acc, v % Base)])

\* a times b for a, b >= 0
BigMulNat(a, b) == MulCarry(a, b, [k |-> 1, carry |-> 0, acc |-> <<>>])

BigMul(a, b) ==
    LET sa == BigSign(a)
        sb == BigSign(b)
        ma == IF sa < 0 THEN BigNeg(a) ELSE a
        mb == IF sb < 0 THEN BigNeg(b) ELSE b
        m  == BigMulNat(ma, mb)
    IN  IF sa * sb < 0 THEN BigNeg(m) ELSE m

\* EMA and MACD values: fractions [n, d] of multi-digit integers, d > 0
BigRat(x) == [n |-> BigFromInt(x), d |-> BigFromInt(1)]

BigRatSub(a, b) ==
    [n |-> BigSub(BigMul(a.n, b.d), BigMul(b.n, a.d)), d |-> BigMul(a.d, b.d)]

\* the value is > 0
BigRatPositive(a) == BigSign(a.n) * BigSign(a.d) > 0

(***************************************************************************)
(* The indicator library.                                                  *)
(***************************************************************************)
\* closes[i] of the C++ vector
At(c, i) == c[i + 1]

\* for (i = from; i <= index; ++i) of calculate_rsi; gl is <<gain, loss>>
RECURSIVE RsiLoop(_, _, _, _)
RsiLoop(c, i, index, gl) ==
    IF i > index THEN gl
    ELSE LET change == At(c, i) - At(c, i - 1)
         IN  IF change > 0
             THEN RsiLoop(c, i + 1, index, <<gl[1] + change, gl[2]>>)
             ELSE RsiLoop(c, i + 1, index, <<gl[1], gl[2] - change>>)

\* first index of the trailing window of period bars ending at index
WindowStart(index, period) == index - period + 1

\* variant: rs = loss / gain
calculate_rsi_inverted(c, index, period) ==
    IF index < period THEN RInt(50)
    ELSE LET gl   == RsiLoop(c, WindowStart(index, period), index, <<0, 0>>)
             gain == gl[1]
             loss == gl[2]
         IN  IF loss = 0 THEN RInt(100)
             ELSE LET rs == RDiv(RInt(loss), RInt(gain))
                  IN  RSub(RInt(100), RDiv(RInt(100), RAdd(RInt(1), rs)))

\* variant: no test of loss == 0 before the division
calculate_rsi_unguarded(c, index, period) ==
    IF index < period THEN RInt(50)
    ELSE LET gl   == RsiLoop(c, WindowStart(index, period), index, <<0, 0>>)
             gain == gl[1]
             loss == gl[2]
             rs   == RDiv(RInt(gain), RInt(loss))
         IN  RSub(RInt(100), RDiv(RInt(100), RAdd(RInt(1), rs)))

calculate_rsi(c, index, period) ==
    IF index < period THEN RInt(50)
    ELSE LET gl   == RsiLoop(c, WindowStart(index, period), index, <<0, 0>>)
             gain == gl[1]
             loss == gl[2]
         IN  IF loss = 0 THEN RInt(100)
             ELSE LET rs == RDiv(RInt(gain), RInt(loss))
                  IN  RSub(RInt(100), RDiv(RInt(100), RAdd(RInt(1), rs)))

\* the indices of closes that calculate_rsi reads
RsiReads(index, period) ==
    IF index < period THEN {}
    ELSE UNION {{i, i - 1} : i \in WindowStart(index, period)..index}

\* ema = data[i] * k + ema * (1 - k) with k = 2 / (length + 1), on the
\* common denominator e.d * (length + 1)
EmaBlend(e, x, length) ==
    [n |-> BigAdd(BigScale(e.d, 2 * x), BigScale(e.n, length - 1)),
     d |-> BigScale(e.d, length + 1)]

\* for (i = current_index - length + 2; i <= current_index; ++i);
\* st is the loop state: the index i and the running ema
RECURSIVE EmaLoop(_, _, _, _)
EmaLoop(data, current_index, length, st) ==
    IF st.i > current_index THEN st.ema
    ELSE EmaLoop(data, current_index, length,
                 [i |-> st.i + 1,
                  ema |-> EmaBlend(st.ema, At(data, st.i), length)])

ema(data, current_index, length) ==
    EmaLoop(data, current_index, length,
            [i |-> WindowStart(current_index, length) + 1,
             ema |-> BigRat(At(data, WindowStart(current_index, length)))])

\* the indices of data that ema reads
EmaReads(current_index, length) ==
    {WindowStart(current_index, length)}
        \cup ((WindowStart(current_index, length) + 1)..current_index)

calculate_macd(c, index) ==
    LET ema12 == ema(c, index, FastLength)
        ema26 == ema(c, index, SlowLength)
    IN  BigRatSub(ema12, ema26)

MacdReads(index) == EmaReads(index, FastLength) \cup EmaReads(index, SlowLength)

RECURSIVE SmaLoop(_, _, _, _)
SmaLoop(c, i, index, sum) ==
    IF i > index THEN sum ELSE SmaLoop(c, i + 1, index, sum + At(c, i))

\* variant: the mean as soon as a full window of period closes exists
calculate_sma_full_window(c, index, period) ==
    IF index < period - 1 THEN RInt(At(c, index))
    ELSE Rat(SmaLoop(c, WindowStart(index, period), index, 0), period)

calculate_sma(c, index, period) ==
    IF index < period THEN RInt(At(c, index))
    ELSE Rat(SmaLoop(c, WindowStart(index, period), index, 0), period)

\* the indices of closes that calculate_sma reads
SmaReads(index, period) ==
    IF index < period THEN {index} ELSE WindowStart(index, period)..index

(***************************************************************************)
(* Inputs.  A generated series is flat at lo for nlo bars, jumps by 29,    *)
(* declines by one per bar up to index 26 and then moves by one of Deltas  *)
(* per bar; lo shifts the whole series, so that prices above, at and below *)
(* zero occur.  The shorter series are the first bars of a generated one.  *)
(***************************************************************************)
Deltas == {-1, 2, 5}
Lows == {1, -20}
FlatLengths == {13, 14}
ShortLengths == {0, 1, 26}
Thresholds == {RInt(0), Rat(1, 100)}

Scenario ==
    <<100, 98, 95, 93, 90, 88, 85, 83, 80, 78, 76, 74, 72, 70, 69, 68,
      90, 92, 95, 100, 105, 110, 115, 120, 125, 130, 135>>

BaseSeries(lo, nlo) ==
    [k \in 1..27 |->
        IF k <= nlo THEN lo ELSE lo + 29 - (k - nlo - 1)]

RECURSIVE Extend(_, _, _)
Extend(c, tail, k) ==
    IF k > Len(tail) THEN c
    ELSE Extend(Append(c, c[Len(c)] + tail[k]), tail, k + 1)

Tails == UNION {[1..n -> Deltas] : n \in 0..MaxTail}

InputSeries ==
    {Extend(BaseSeries(lo, nlo), t, 1) : lo \in Lows, nlo \in FlatLengths, t \in Tails}
        \cup {SubSeq(BaseSeries(lo, nlo), 1, n) :
                 lo \in Lows, nlo \in FlatLengths, n \in ShortLengths}
        \cup {Scenario}

\* stand-alone indicator calls: short series over a few prices
Prices == {-2, 0, 3}
ShortSeries == UNION {[1..n -> Prices] : n \in 1..MaxLen}
LibSeries == ShortSeries \cup {Scenario}
Periods == (0..MaxPeriod) \cup {DefaultPeriod}

(***************************************************************************)
(* State of one run of run_strategy.                                       *)
(***************************************************************************)
VARIABLES
    closes,            \* the closing prices collected from the candles
    profit_threshold,  \* the argument of run_strategy
    pc,                \* "scan", "close", "final", "done"; "lib" for library calls
    i,                 \* the loop index
    wins, trades, total_return, in_position, entry_price,
    result,            \* the returned TradeResult, once pc = "done"
    entries,           \* history: the indices of the FLAT -> LONG transitions
    log,               \* history: one record per counted trade
    opened,            \* history: index at which the open position was entered
    scanned,           \* history: index of the last loop iteration, -1 before
    reads,             \* history: indices of closes read by that iteration
    call               \* the last stand-alone indicator call and its value

vars == <<closes, profit_threshold, pc, i, wins, trades, total_return,
          in_position, entry_price, result, entries, log, opened, scanned,
          reads, call>>

locals == <<wins, trades, total_return, in_position, entry_price>>

NoResult == [success_rate |-> RInt(0), average_return_percent |-> RInt(0),
             trade_count |-> -1, log |-> <<>>]

NoCall == [fn |-> "none", index |-> 0, period |-> 0, value |-> RInt(0)]

Size == Len(closes)

Start(series, threshold, at) ==
    /\ closes = series
    /\ profit_threshold = threshold
    /\ pc = at
    /\ i = FirstIndex
    /\ wins = 0
    /\ trades = 0
    /\ total_return = RInt(0)
    /\ in_position = FALSE
    /\ entry_price = 0
    /\ result = NoResult
    /\ entries = <<>>
    /\ log = <<>>
    /\ opened = -1
    /\ scanned = -1
    /\ reads = {}
    /\ call = NoCall

Init == \E series \in InputSeries, threshold \in Thresholds :
            Start(series, threshold, "scan")

(***************************************************************************)
(* run_strategy.                                                           *)
(***************************************************************************)
\* variant: the entry condition without the test of !in_position
EntryFiresAnyState(inpos, rsi, macd, close, sma20) ==
    /\ RLt(rsi, RInt(Oversold))
    /\ BigRatPositive(macd)
    /\ RGt(RInt(close), sma20)

\* the condition of the if
EntryFires(inpos, rsi, macd, close, sma20) ==
    /\ ~inpos
    /\ RLt(rsi, RInt(Oversold))
    /\ BigRatPositive(macd)
    /\ RGt(RInt(close), sma20)

\* variant: the exit condition without the test of in_position
ExitFiresAnyState(inpos, rsi, close, sma20) ==
    RGt(rsi, RInt(ExitLevel)) \/ RLt(RInt(close), sma20)

\* the condition of the else if
ExitFires(inpos, rsi, close, sma20) ==
    /\ inpos
    /\ (RGt(rsi, RInt(ExitLevel)) \/ RLt(RInt(close), sma20))

\* ret = (price - entry_price) / entry_price
Return(price, entry) == RDiv(RInt(price - entry), RInt(entry))

\* variant: ret >= profit_threshold
IsWinOrEqual(ret, threshold) == ~RLt(ret, threshold)

\* ret > profit_threshold
IsWin(ret, threshold) == RGt(ret, threshold)

\* variant: the close before the last
BackButOne(c) == At(c, Len(c) - 2)

\* closes.back()
Back(c) == At(c, Len(c) - 1)

\* total_return += ret; if (ret > profit_threshold) wins++; trades++
Account(price, at, forced) ==
    LET ret == Return(price, entry_price)
    IN  /\ total_return' = RAdd(total_return, ret)
        /\ wins' = IF IsWin(ret, profit_threshold) THEN wins + 1 ELSE wins
        /\ trades' = trades + 1
        /\ log' = Append(log, [entry_index |-> opened, entry_price |-> entry_price,
                               exit_index |-> at, exit_price |-> price,
                               ret |-> ret, forced |-> forced])

\* what one loop iteration reads of closes
IterationReads(index) ==
    RsiReads(index, DefaultPeriod) \cup MacdReads(index)
        \cup SmaReads(index, SmaPeriod) \cup {index}

Iterate ==
    /\ pc = "scan"
    /\ i < Size
    /\ i' = i + 1
    /\ scanned' = i
    /\ reads' = IterationReads(i)
    /\ UNCHANGED <<closes, profit_threshold, pc, result, call>>

Enter ==
    /\ Iterate
    /\ EntryFires(in_position, calculate_rsi(closes, i, DefaultPeriod),
                  calculate_macd(closes, i), At(closes, i),
                  calculate_sma(closes, i, SmaPeriod))
    /\ in_position' = TRUE
    /\ entry_price' = At(closes, i)
    /\ entries' = Append(entries, i)
    /\ opened' = i
    /\ UNCHANGED <<wins, trades, total_return, log>>

Exit ==
    /\ Iterate
    /\ ~EntryFires(in_position, calculate_rsi(closes, i, DefaultPeriod),
                   calculate_macd(closes, i), At(closes, i),
                   calculate_sma(closes, i, SmaPeriod))
    /\ ExitFires(in_position, calculate_rsi(closes, i, DefaultPeriod),
                 At(closes, i), calculate_sma(closes, i, SmaPeriod))
    /\ Account(At(closes, i), i, FALSE)
    /\ in_position' = FALSE
    /\ UNCHANGED <<entry_price, entries, opened>>

Hold ==
    /\ Iterate
    /\ ~EntryFires(in_position, calculate_rsi(closes, i, DefaultPeriod),
                   calculate_macd(closes, i), At(closes, i),
                   calculate_sma(closes, i, SmaPeriod))
    /\ ~ExitFires(in_position, calculate_rsi(closes, i, DefaultPeriod),
                  At(closes, i), calculate_sma(closes, i, SmaPeriod))
    /\ UNCHANGED <<locals, entries, log, opened>>

\* i < closes.size() fails: leave the loop
LoopEnd ==
    /\ pc = "scan"
    /\ ~(i < Size)
    /\ pc' = "close"
    /\ UNCHANGED <<closes, profit_threshold, i, locals, result, entries, log,
                   opened, scanned, reads, call>>

\* if (in_position): close the open trade at closes.back()
ForcedClose ==
    /\ pc = "close"
    /\ in_position
    /\ Account(Back(closes), Size - 1, TRUE)
    /\ pc' = "final"
    /\ UNCHANGED <<closes, profit_threshold, i, in_position, entry_price,
                   result, entries, opened, scanned, reads, call>>

SkipClose ==
    /\ pc = "close"
    /\ ~in_position
    /\ pc' = "final"
    /\ UNCHANGED <<closes, profit_threshold, i, locals, result, entries, log,
                   opened, scanned, reads, call>>

\* variant: the two quotients without the test of trades
SummaryUnguarded(w, t, total) ==
    [success_rate |-> RMul(RDiv(RInt(w), RInt(t)), RInt(100)),
     average_return_percent |-> RMul(RDiv(total, RInt(t)), RInt(100)),
     trade_count |-> t,
     log |-> <<>>]

\* avg_return, success and the returned TradeResult
Summary(w, t, total) ==
    [success_rate |->
         IF t # 0 THEN RMul(RDiv(RInt(w), RInt(t)), RInt(100)) ELSE RInt(0),
     average_return_percent |->
         IF t # 0 THEN RMul(RDiv(total, RInt(t)), RInt(100)) ELSE RInt(0),
     trade_count |-> t,
     log |-> <<>>]

Finish ==
    /\ pc = "final"
    /\ result' = Summary(wins, trades, total_return)
    /\ pc' = "done"
    /\ UNCHANGED <<closes, profit_threshold, i, locals, entries, log, opened,
                   scanned, reads, call>>

Next == Enter \/ Exit \/ Hold \/ LoopEnd \/ ForcedClose \/ SkipClose \/ Finish

Spec == Init /\ [][Next]_vars

(***************************************************************************)
(* Stand-alone calls of the indicator library.                             *)
(***************************************************************************)
InitLib == \E series \in LibSeries : Start(series, RInt(0), "lib")

CallRsi ==
    /\ pc = "lib"
    /\ \E index \in 0..(Size - 1), period \in Periods :
           call' = [fn |-> "rsi", index |-> index, period |-> period,
                    value |-> calculate_rsi(closes, index, period)]
    /\ UNCHANGED <<closes, profit_threshold, pc, i, locals, result, entries,
                   log, opened, scanned, reads>>

CallSma ==
    /\ pc = "lib"
    /\ \E index \in 0..(Size - 1), period \in Periods \ {0} :
           call' = [fn |-> "sma", index |-> index, period |-> period,
                    value |-> calculate_sma(closes, index, period)]
    /\ UNCHANGED <<closes, profit_threshold, pc, i, locals, result, entries,
                   log, opened, scanned, reads>>

NextLib == CallRsi \/ CallSma

SpecLib == InitLib /\ [][NextLib]_vars

(***************************************************************************)
(* Signals, restated from the conditions of the strategy, and sums, for    *)
(* the properties below.                                                   *)
(***************************************************************************)
\* RSI < 30 and MACD > 0 and close > SMA20 at index j
EntrySignal(j) ==
    LET rsi == calculate_rsi(closes, j, 14)
        sma == calculate_sma(closes, j, 20)
    IN  /\ rsi.n * 1 < 30 * rsi.d
        /\ At(closes, j) * sma.d > sma.n
        /\ BigSign(calculate_macd(closes, j).n) = 1

\* RSI > 60 or close < SMA20 at index j
ExitSignal(j) ==
    LET rsi == calculate_rsi(closes, j, 14)
        sma == calculate_sma(closes, j, 20)
    IN  \/ rsi.n > 60 * rsi.d
        \/ At(closes, j) * sma.d < sma.n

\* r is exactly num / den (non-finite when den = 0)
IsQuotient(r, num, den) ==
    IF den = 0 THEN r.d = 0 /\ r.n = Sign(num)
    ELSE r.d > 0 /\ r.n * den = num * r.d

\* r > th for finite th
Exceeds(r, th) == IF r.d = 0 THEN r.n = 1 ELSE r.n * th.d > th.n * r.d

TradesOf(k) == {m \in 1..Len(log) : log[m].entry_index = k}

RECURSIVE SumOver(_, _)
SumOver(c, S) ==
    IF S = {} THEN 0
    ELSE LET j == CHOOSE x \in S : TRUE IN At(c, j) + SumOver(c, S \ {j})

(***************************************************************************)
(* C1: the trade count equals the number of entries: during the scan every *)
(* entry but a still open one has been counted as a trade, after the       *)
(* forced close every entry has, each entry has exactly one trade record,  *)
(* and the returned trade_count is the number of entries.                  *)
(***************************************************************************)
C1_TradeCountEqualsEntries ==
    /\ pc \in {"scan", "close"} =>
           Len(entries) = trades + (IF in_position THEN 1 ELSE 0)
    /\ pc \in {"final", "done"} => Len(entries) = trades
    /\ Len(log) = trades
    /\ \A m \in 1..Len(log) : log[m].entry_index = entries[m]
    /\ pc = "done" => result.trade_count = Len(entries)

C1_Witness ==
    /\ pc = "done"
    /\ result.trade_count = 2
    /\ ~log[1].forced
    /\ log[2].forced

(***************************************************************************)
(* C2: a position opened at an index after which no exit condition holds   *)
(* is recorded as exactly one trade, by the forced close, whose exit price *)
(* is the last close and whose return is (last - entry) / entry.           *)
(***************************************************************************)
NoExitAfter(k) == \A j \in (k + 1)..(Size - 1) : ~ExitSignal(j)

C2_ForcedCloseAtLastPrice ==
    pc = "done" =>
        \A e \in 1..Len(entries) :
            NoExitAfter(entries[e]) =>
                /\ Cardinality(TradesOf(entries[e])) = 1
                /\ \A m \in TradesOf(entries[e]) :
                       /\ log[m].forced
                       /\ log[m].exit_index = Size - 1
                       /\ log[m].exit_price = closes[Size]
                       /\ log[m].entry_price = At(closes, entries[e])
                       /\ IsQuotient(log[m].ret,
                                     closes[Size] - At(closes, entries[e]),
                                     At(closes, entries[e]))

C2_Witness ==
    /\ pc = "done"
    /\ \E m \in 1..Len(log) :
           /\ log[m].forced
           /\ log[m].entry_index < Size - 2
           /\ NoExitAfter(log[m].entry_index)
           /\ closes[Size] # closes[Size - 1]
           /\ log[m].ret.d > 1

(***************************************************************************)
(* C3: when the entry condition holds at no index from 26 on, the run      *)
(* returns trade_count 0, success_rate 0 and average_return_percent 0 and  *)
(* the forced close is not executed.                                       *)
(***************************************************************************)
NoEntrySignal == \A j \in 26..(Size - 1) : ~EntrySignal(j)

C3_NoEntryNoTrades ==
    (pc = "done" /\ NoEntrySignal) =>
        /\ result.trade_count = 0
        /\ result.success_rate = [n |-> 0, d |-> 1]
        /\ result.average_return_percent = [n |-> 0, d |-> 1]
        /\ log = <<>>
        /\ ~in_position

C3_Witness ==
    /\ pc = "done"
    /\ Size > 28
    /\ NoEntrySignal
    /\ \E j \in 26..(Size - 1) : ExitSignal(j)
    /\ result.trade_count = 0

(***************************************************************************)
(* C4: whenever in_position is true, entry_price is strictly positive.     *)
(***************************************************************************)
C4_EntryPricePositive == in_position => entry_price > 0

(***************************************************************************)
(* C5: 0 <= wins <= trades throughout, wins counts exactly the trades      *)
(* whose return strictly exceeds profit_threshold, and the returned        *)
(* success_rate is wins / trades * 100 (0 without trades), in [0, 100].    *)
(***************************************************************************)
C5_SuccessRateInRange ==
    /\ 0 <= wins /\ wins <= trades
    /\ wins = Cardinality({m \in 1..Len(log) : Exceeds(log[m].ret, profit_threshold)})
    /\ pc = "done" =>
           /\ result.success_rate.d > 0
           /\ 0 <= result.success_rate.n
           /\ result.success_rate.n <= 100 * result.success_rate.d
           /\ IF result.trade_count > 0
              THEN result.success_rate.n * result.trade_count
                       = 100 * wins * result.success_rate.d
              ELSE result.success_rate.n = 0

C5_Witness ==
    /\ pc = "done"
    /\ result.trade_count = 2
    /\ wins = 1
    /\ \E m \in 1..Len(log) : log[m].ret = profit_threshold

(***************************************************************************)
(* C6 as stated: on the 27-point scenario with profit_threshold 0.01 the   *)
(* three entry conditions hold at index 26, a position is opened there at  *)
(* that close, and the result has trade_count >= 1.                        *)
(***************************************************************************)
OnScenario == closes = Scenario /\ profit_threshold = Rat(1, 100)

C6_ScenarioOpensPosition ==
    OnScenario =>
        /\ EntrySignal(26)
        /\ scanned >= 26 => (in_position /\ entry_price = At(closes, 26))
        /\ pc = "done" => result.trade_count >= 1

(***************************************************************************)
(* C6 amended: on the scenario MACD(26) > 0 and close[26] > SMA(26, 20)    *)
(* hold, but RSI(26) is 6700/71 (about 94.4), not below 30: no position is *)
(* opened and the result has trade_count 0.                                *)
(***************************************************************************)
C6_ScenarioOpensNoPosition ==
    OnScenario =>
        /\ calculate_rsi(closes, 26, 14) = [n |-> 6700, d |-> 71]
        /\ ~EntrySignal(26)
        /\ BigSign(calculate_macd(closes, 26).n) = 1
        /\ At(closes, 26) * 20 > SumOver(closes, 7..26)
        /\ ~in_position
        /\ entries = <<>>
        /\ pc = "done" => result.trade_count = 0

C6_Witness == OnScenario /\ pc = "done" /\ scanned = 26

(***************************************************************************)
(* C7: calculate_rsi returns a value in [0, 100]; with period 14 and an    *)
(* index below 14 it returns exactly 50; and when no change in the         *)
(* trailing window is negative, so that loss stays 0, it returns exactly   *)
(* 100 instead of dividing by zero.                                        *)
(***************************************************************************)
\* no change over the trailing window is negative
NoLoss(index, period) ==
    \A j \in (index - period + 1)..index : At(closes, j) >= At(closes, j - 1)

C7_RsiInRange ==
    call.fn = "rsi" =>
        /\ call.value.d > 0
        /\ 0 <= call.value.n
        /\ call.value.n <= 100 * call.value.d
        /\ (call.period = 14 /\ call.index < 14) => call.value = [n |-> 50, d |-> 1]
        /\ (call.index >= call.period /\ NoLoss(call.index, call.period)) =>
               call.value = [n |-> 100, d |-> 1]

C7_Witness ==
    /\ call.fn = "rsi"
    /\ call.period = 14
    /\ call.index >= 14
    /\ 0 < call.value.n
    /\ call.value.n < 100 * call.value.d

(***************************************************************************)
(* C8: calculate_sma(closes, i, p) with p >= 1 returns closes[i] when      *)
(* i < p, also at i = p - 1 where a full window exists, and the mean of    *)
(* closes[i-p+1..i] when i >= p.                                           *)
(***************************************************************************)
C8_SmaMeanOrFallback ==
    call.fn = "sma" =>
        IF call.index < call.period
        THEN call.value = [n |-> At(closes, call.index), d |-> 1]
        ELSE /\ call.value.d > 0
             /\ call.value.n * call.period =
                    SumOver(closes, (call.index - call.period + 1)..call.index)
                        * call.value.d

C8_Witness ==
    /\ call.fn = "sma"
    /\ call.period >= 2
    /\ call.index = call.period - 1
    /\ SumOver(closes, 0..call.index) # call.period * At(closes, call.index)
    /\ call.value = [n |-> At(closes, call.index), d |-> 1]

(***************************************************************************)
(* C9: a loop iteration makes at most one transition: an entry only from   *)
(* FLAT and only on the entry condition, an exit with its accounting only  *)
(* from LONG and only on the exit condition, never an entry and an exit in *)
(* the same iteration, and otherwise nothing changes.                      *)
(***************************************************************************)
IterationStep ==
    /\ i' = i + 1
    /\ (~in_position /\ in_position') =>
           /\ EntrySignal(i)
           /\ entry_price' = At(closes, i)
           /\ UNCHANGED <<wins, trades, total_return, log>>
    /\ (in_position /\ ~in_position') =>
           /\ ExitSignal(i)
           /\ trades' = trades + 1
           /\ Len(log') = Len(log) + 1
           /\ log'[Len(log')].exit_index = i
           /\ log'[Len(log')].entry_index < i
           /\ entry_price' = entry_price
    /\ (in_position' = in_position) =>
           UNCHANGED <<entry_price, wins, trades, total_return, log>>
    /\ (~in_position /\ ~EntrySignal(i)) => ~in_position'
    /\ (in_position /\ ~ExitSignal(i)) => in_position'

C9_OneTransitionPerIndex ==
    [][(pc = "scan" /\ i < Size) => IterationStep]_vars

\* LONG after an iteration at which the entry condition held again
C9_Witness ==
    /\ pc = "scan"
    /\ in_position
    /\ scanned > opened
    /\ EntrySignal(scanned)
    /\ entry_price # At(closes, scanned)

(***************************************************************************)
(* C10: no iteration runs at an index below 26, and an iteration at index  *)
(* i reads only closes[0..i], within the series: neither calculate_rsi,    *)
(* ema(12), ema(26), calculate_sma(20) nor the loop body reads an index    *)
(* below 0, above i or past the end.                                       *)
(***************************************************************************)
C10_WarmUpAndNoLookahead ==
    /\ pc = "scan" => i >= 26
    /\ \A e \in 1..Len(entries) : entries[e] >= 26
    /\ \A m \in 1..Len(log) : log[m].exit_index >= 26
    /\ scanned = -1 => reads = {}
    /\ scanned # -1 =>
           /\ scanned >= 26
           /\ scanned < Size
           /\ reads \subseteq 0..scanned
           /\ RsiReads(scanned, 14) \cup EmaReads(scanned, 12)
                  \cup EmaReads(scanned, 26) \cup SmaReads(scanned, 20)
                  \subseteq reads

C10_Witness ==
    /\ scanned = 26
    /\ reads = 1..26
    /\ Size > 27

====
